---- MODULE Spec2Model ----
(***************************************************************************)
(* A model of megakernels/scripts/perfetto_utils.py: the clock-rate        *)
(* detection chain, the single-worker and all-worker Perfetto exports and  *)
(* the trace merge, over a file system of JSON texts.                      *)
(*                                                                         *)
(* Numbers.  Cycle counts are integers (tensor .item()), clock rates are   *)
(* the integers 0..MaxClock.  A Python float is modelled by the exact      *)
(* rational it denotes, kept in lowest terms ([num, den], den > 0): for    *)
(* the cycle counts and clock rates of the model IEEE division and         *)
(* subtraction keep the sign and the order of the exact results.           *)
(*                                                                         *)
(* Files.  A file's text is a sequence of JSON tokens; json.dump produces  *)
(* the tokens of an array one after the other, so an interrupted write     *)
(* leaves a proper prefix, and json.load parses tokens back.               *)
(***************************************************************************)
EXTENDS Integers, Sequences, FiniteSets, TLC

VARIABLES
    timings,        \* schedule.globs.timings      [shape, data]
    instructions,   \* schedule.globs.instructions [shape, data] (field 0)
    files,          \* the file system: path -> [exists, text]
    filesBefore,    \* the file system when the most recent call was entered
    op,             \* the most recent call ("none" before any)
    args,           \* its arguments
    io,             \* the I/O faults the environment injected into it
    raised,         \* the exception that escaped it ("none": it returned)
    events,         \* its local list `events` / `all_events` when it ended
    results,        \* export_all_workers: the returned dictionary
    attempted,      \* export_all_workers: the roles tried, in order
    prev,           \* summary of the call before the most recent one
    gpu,            \* detect_clock_rate_mhz: gpu_index and the environment
    mhz,            \* detect_clock_rate_mhz: the value returned (0: none)
    consulted       \* detect_clock_rate_mhz: the sources queried, in order

vars == <<timings, instructions, files, filesBefore, op, args, io, raised,
          events, results, attempted, prev, gpu, mhz, consulted>>

----------------------------------------------------------------------------
(* Bounds of the model *)

MaxSMs == 2
MaxQueueLen == 2
MaxCycle == 2
MaxClock == 2
MaxCut == 1
MaxInputs == 2
MaxGpus == 2
MaxMHz == 2
MaxFaulty == 2

----------------------------------------------------------------------------
(* Event ids and the two lookup tables *)

TEVENT_CONTROLLER_START == 0
TEVENT_IFETCH_DONE == 1
TEVENT_PAGE_ALLOC_DONE == 2
TEVENT_SEMS_SETUP == 3
TEVENT_CONTROLLER_END == 4
TEVENT_LOADER_START == 5
TEVENT_IFETCH_DONE_LOADER == 6
TEVENT_LAUNCHER_START == 7
TEVENT_LAUNCHER_END == 8
TEVENT_STORER_START == 9
TEVENT_STORER_END == 10
TEVENT_CONSUMER_START == 11

WORKER_EVENTS ==
    [w \in {"controller", "loader", "launcher", "storer", "consumer"} |->
        CASE w = "controller" -> <<TEVENT_CONTROLLER_START, TEVENT_CONTROLLER_END>>
          [] w = "loader"     -> <<TEVENT_LOADER_START, TEVENT_IFETCH_DONE_LOADER>>
          [] w = "launcher"   -> <<TEVENT_LAUNCHER_START, TEVENT_LAUNCHER_END>>
          [] w = "storer"     -> <<TEVENT_STORER_START, TEVENT_STORER_END>>
          [] w = "consumer"   -> <<TEVENT_CONSUMER_START, TEVENT_CONSUMER_START + 1>>]

\* WORKER_EVENTS.keys(): a dict enumerates its keys in insertion order.
WorkerKeys == <<"controller", "loader", "launcher", "storer", "consumer">>

OPCODE_NAMES ==
    [o \in 1..7 |->
        CASE o = 1 -> "RMS_QKV_MatVecRopeAppend"
          [] o = 2 -> "PartialAttention"
          [] o = 3 -> "AttentionReduction"
          [] o = 4 -> "O_ProjResidual"
          [] o = 5 -> "RMS_DoubleMatVecSiLU"
          [] o = 6 -> "DownProjResidual"
          [] o = 7 -> "RMS_LM_Head"]

\* OPCODE_NAMES.get(opcode, f"Op{opcode}")
OpName(opcode) ==
    IF opcode \in DOMAIN OPCODE_NAMES THEN OPCODE_NAMES[opcode]
    ELSE "Op" \o ToString(opcode)

----------------------------------------------------------------------------
(* Floats as exact rationals in lowest terms *)

Abs(n) == IF n < 0 THEN -n ELSE n

RECURSIVE Gcd(_, _)
Gcd(a, b) == IF b = 0 THEN a ELSE Gcd(b, a % b)

Ratio(n, d) ==
    LET g == Gcd(Abs(n), d)
    IN  [num |-> n \div g, den |-> d \div g]

\* cycles / clock_rate_mhz, clock_rate_mhz > 0
TrueDiv(cycles, clock) == Ratio(cycles, clock)

\* end_us - start_us
FloatSub(a, b) == Ratio(a.num * b.den - b.num * a.den, a.den * b.den)

FloatLeqZero(a) == a.num <= 0

----------------------------------------------------------------------------
(* export_to_perfetto: building the event list *)

\* worker_name not in WORKER_EVENTS
UnknownWorker(worker_name) == worker_name \notin DOMAIN WORKER_EVENTS

\* start_cycles <= 0 or end_cycles <= 0
SkipSample(start_cycles, end_cycles) == start_cycles <= 0 \/ end_cycles <= 0

\* Mutant: "<" for "<=", a zero duration is kept
SkipDuration_strict(duration_us) == duration_us.num < 0

\* duration_us <= 0
SkipDuration(duration_us) == FloatLeqZero(duration_us)

\* instructions[sm_id, instr_idx, 0] is inside the tensor
InstrInRange(ins, sm_id, instr_idx) ==
    sm_id < ins.shape[1] /\ instr_idx < ins.shape[2]

MakeEvent(worker_name, sm_id, instr_idx, opcode, start_cycles, end_cycles, start_us, end_us, duration_us) ==
    [name |-> OpName(opcode) \o ":" \o worker_name,
     ph   |-> "X",
     ts   |-> start_us,
     dur  |-> duration_us,
     pid  |-> sm_id,
     tid  |-> worker_name,
     args |-> [sm_id |-> sm_id,
               instruction_index |-> instr_idx,
               opcode |-> opcode,
               operation |-> OpName(opcode),
               start_cycles |-> start_cycles,
               end_cycles |-> end_cycles,
               start_us |-> start_us,
               end_us |-> end_us]]

\* The body of the inner loop for one (sm_id, instr_idx): the exception it
\* raises, if any, and the events it appends (none or one).
PairStep(tim, ins, worker_name, clock, sm_id, instr_idx) ==
    LET start_event_id == WORKER_EVENTS[worker_name][1]
        end_event_id   == WORKER_EVENTS[worker_name][2]
        start_cycles   == tim.data[<<sm_id, instr_idx, start_event_id>>]
        end_cycles     == tim.data[<<sm_id, instr_idx, end_event_id>>]
    IN  IF SkipSample(start_cycles, end_cycles)
        THEN [raised |-> "none", emit |-> <<>>]
        ELSE IF clock = 0
        THEN [raised |-> "ZeroDivisionError", emit |-> <<>>]
        ELSE LET start_us    == TrueDiv(start_cycles, clock)
                 end_us      == TrueDiv(end_cycles, clock)
                 duration_us == FloatSub(end_us, start_us)
             IN  IF SkipDuration(duration_us)
                 THEN [raised |-> "none", emit |-> <<>>]
                 ELSE IF ~InstrInRange(ins, sm_id, instr_idx)
                 THEN [raised |-> "IndexError", emit |-> <<>>]
                 ELSE [raised |-> "none",
                       emit |-> <<MakeEvent(worker_name, sm_id, instr_idx,
                                            ins.data[<<sm_id, instr_idx>>],
                                            start_cycles, end_cycles,
                                            start_us, end_us, duration_us)>>]

\* Mutant: the loops exchanged, instruction slots outermost
RECURSIVE ScanPairs_slot_major(_, _, _, _, _, _, _)
ScanPairs_slot_major(tim, ins, worker_name, clock, sm_id, instr_idx, acc) ==
    IF instr_idx >= tim.shape[2]
    THEN [raised |-> "none", events |-> acc]
    ELSE IF sm_id >= tim.shape[1]
    THEN ScanPairs_slot_major(tim, ins, worker_name, clock, 0, instr_idx + 1, acc)
    ELSE LET step == PairStep(tim, ins, worker_name, clock, sm_id, instr_idx)
         IN  IF step.raised # "none"
             THEN [raised |-> step.raised, events |-> acc]
             ELSE ScanPairs_slot_major(tim, ins, worker_name, clock, sm_id + 1, instr_idx, acc \o step.emit)

\* for sm_id in range(shape[0]): for instr_idx in range(shape[1]): ...
\* continued from (sm_id, instr_idx) with `acc` appended so far.
RECURSIVE ScanPairs(_, _, _, _, _, _, _)
ScanPairs(tim, ins, worker_name, clock, sm_id, instr_idx, acc) ==
    IF sm_id >= tim.shape[1]
    THEN [raised |-> "none", events |-> acc]
    ELSE IF instr_idx >= tim.shape[2]
    THEN ScanPairs(tim, ins, worker_name, clock, sm_id + 1, 0, acc)
    ELSE LET step == PairStep(tim, ins, worker_name, clock, sm_id, instr_idx)
         IN  IF step.raised # "none"
             THEN [raised |-> step.raised, events |-> acc]
             ELSE ScanPairs(tim, ins, worker_name, clock, sm_id, instr_idx + 1,
                            acc \o step.emit)

\* events = []; the two loops
BuildEvents(tim, ins, worker_name, clock) ==
    ScanPairs(tim, ins, worker_name, clock, 0, 0, <<>>)

----------------------------------------------------------------------------
(* JSON texts *)

Tok(t) == [tok |-> t, val |-> <<>>]
ItemTok(v) == [tok |-> "item", val |-> <<v>>]
KeyTok(k) == [tok |-> "key", val |-> <<k>>]

\* The tokens after the first element of an array: ", e2 , e3 ..."
RECURSIVE DumpRest(_)
DumpRest(items) ==
    IF items = <<>> THEN <<>>
    ELSE <<Tok(","), ItemTok(Head(items))>> \o DumpRest(Tail(items))

\* json.dump(list, f, indent=2): the text written, token by token
json_dump(items) ==
    IF items = <<>> THEN <<Tok("["), Tok("]")>>
    ELSE <<Tok("["), ItemTok(Head(items))>> \o DumpRest(Tail(items)) \o <<Tok("]")>>

JsonError == [raised |-> "JSONDecodeError", type |-> "none", items |-> <<>>]

\* Mutant: the element before the closing bracket is lost
RECURSIVE ParseElements_drop_last(_, _, _)
ParseElements_drop_last(text, pos, acc) ==
    IF pos + 1 > Len(text) \/ text[pos].tok # "item" THEN JsonError
    ELSE IF text[pos + 1].tok = ","
    THEN ParseElements_drop_last(text, pos + 2, Append(acc, text[pos].val[1]))
    ELSE IF text[pos + 1].tok = "]" /\ pos + 1 = Len(text)
    THEN [raised |-> "none", type |-> "list", items |-> acc]
    ELSE JsonError

\* Elements of an array from position pos, where an element is expected.
RECURSIVE ParseElements(_, _, _)
ParseElements(text, pos, acc) ==
    IF pos + 1 > Len(text) \/ text[pos].tok # "item" THEN JsonError
    ELSE LET acc2 == Append(acc, text[pos].val[1])
         IN  IF text[pos + 1].tok = ","
             THEN ParseElements(text, pos + 2, acc2)
             ELSE IF text[pos + 1].tok = "]" /\ pos + 1 = Len(text)
             THEN [raised |-> "none", type |-> "list", items |-> acc2]
             ELSE JsonError

\* Members of an object from position pos, where a key is expected; a dict
\* is kept as the sequence of its keys, which is what iterating it yields.
RECURSIVE ParseMembers(_, _, _)
ParseMembers(text, pos, acc) ==
    IF pos + 3 > Len(text) \/ text[pos].tok # "key" \/ text[pos + 1].tok # ":" \/ text[pos + 2].tok # "item"
    THEN JsonError
    ELSE LET acc2 == Append(acc, text[pos].val[1])
         IN  IF text[pos + 3].tok = ","
             THEN ParseMembers(text, pos + 4, acc2)
             ELSE IF text[pos + 3].tok = "}" /\ pos + 3 = Len(text)
             THEN [raised |-> "none", type |-> "dict", items |-> acc2]
             ELSE JsonError

\* json.load(f): the top-level value, or JSONDecodeError
json_load(text) ==
    IF Len(text) < 2 THEN JsonError
    ELSE IF text[1].tok = "["
    THEN IF text[2].tok = "]"
         THEN IF Len(text) = 2 THEN [raised |-> "none", type |-> "list", items |-> <<>>] ELSE JsonError
         ELSE ParseElements(text, 2, <<>>)
    ELSE IF text[1].tok = "{"
    THEN IF text[2].tok = "}"
         THEN IF Len(text) = 2 THEN [raised |-> "none", type |-> "dict", items |-> <<>>] ELSE JsonError
         ELSE ParseMembers(text, 2, <<>>)
    ELSE JsonError

----------------------------------------------------------------------------
(* The file system and the faults of the environment *)

Absent == [exists |-> FALSE, text |-> <<>>]
FileOf(text) == [exists |-> TRUE, text |-> text]

NoFault == [kind |-> "none", cut |-> 0]
Faults ==
    {NoFault, [kind |-> "open", cut |-> 0]} \cup {[kind |-> "write", cut |-> k] : k \in 0..MaxCut}

Prefix(text, n) == SubSeq(text, 1, n)

\* with open(output_file, 'w') as f: json.dump(items, f, indent=2)
\* Opening truncates; a write that fails leaves the tokens written so far.
WriteJson(fs, output_file, items, fault) ==
    LET text == json_dump(items)
    IN  IF fault.kind = "open"
        THEN [raised |-> "OSError", files |-> fs]
        ELSE IF fault.kind = "write" /\ fault.cut < Len(text)
        THEN [raised |-> "OSError", files |-> [fs EXCEPT ![output_file] = FileOf(Prefix(text, fault.cut))]]
        ELSE [raised |-> "none", files |-> [fs EXCEPT ![output_file] = FileOf(text)]]

\* Mutant: the output file is opened before the worker name is checked
export_opens_first(fs, tim, ins, worker_name, output_file, clock, fault) ==
    IF UnknownWorker(worker_name)
    THEN [raised |-> "ValueError", files |-> [fs EXCEPT ![output_file] = FileOf(<<>>)], events |-> <<>>]
    ELSE LET built == BuildEvents(tim, ins, worker_name, clock)
         IN  IF built.raised # "none"
             THEN [raised |-> built.raised, files |-> fs, events |-> built.events]
             ELSE LET w == WriteJson(fs, output_file, built.events, fault)
                  IN  [raised |-> w.raised, files |-> w.files, events |-> built.events]

\* export_to_perfetto(schedule, worker_name, output_file, clock_rate_mhz)
export_to_perfetto(fs, tim, ins, worker_name, output_file, clock, fault) ==
    IF UnknownWorker(worker_name)
    THEN [raised |-> "ValueError", files |-> fs, events |-> <<>>]
    ELSE LET built == BuildEvents(tim, ins, worker_name, clock)
         IN  IF built.raised # "none"
             THEN [raised |-> built.raised, files |-> fs, events |-> built.events]
             ELSE LET w == WriteJson(fs, output_file, built.events, fault)
                  IN  [raised |-> w.raised, files |-> w.files, events |-> built.events]

\* f"{output_dir}/timeline_{worker_name}.json"
TimelinePath(output_dir, worker_name) == output_dir \o "/timeline_" \o worker_name \o ".json"

\* The body of the loop of export_all_workers for WorkerKeys[i]: the try
\* block and its `except Exception`, which catches every exception modelled.
ExportWorker(acc, tim, ins, output_dir, clock, faults, i) ==
    LET worker_name == WorkerKeys[i]
        output_file == TimelinePath(output_dir, worker_name)
        r == export_to_perfetto(acc.files, tim, ins, worker_name, output_file, clock, faults[worker_name])
    IN  [files     |-> r.files,
         results   |-> IF r.raised = "none" THEN (worker_name :> output_file) @@ acc.results ELSE acc.results,
         attempted |-> Append(acc.attempted, worker_name),
         failures  |-> IF r.raised = "none" THEN acc.failures ELSE Append(acc.failures, worker_name)]

\* Mutant: the first failure ends the loop
RECURSIVE ExportFrom_abort(_, _, _, _, _, _, _)
ExportFrom_abort(acc, tim, ins, output_dir, clock, faults, i) ==
    IF i > Len(WorkerKeys) \/ acc.failures # <<>> THEN acc
    ELSE ExportFrom_abort(ExportWorker(acc, tim, ins, output_dir, clock, faults, i), tim, ins, output_dir, clock, faults, i + 1)

\* for worker_name in WORKER_EVENTS.keys(): ... from the i-th key on
RECURSIVE ExportFrom(_, _, _, _, _, _, _)
ExportFrom(acc, tim, ins, output_dir, clock, faults, i) ==
    IF i > Len(WorkerKeys) THEN acc
    ELSE ExportFrom(ExportWorker(acc, tim, ins, output_dir, clock, faults, i), tim, ins, output_dir, clock, faults, i + 1)

\* export_all_workers(schedule, output_dir, clock_rate_mhz)
export_all_workers(fs, tim, ins, output_dir, clock, faults) ==
    ExportFrom([files |-> fs, results |-> <<>>, attempted |-> <<>>, failures |-> <<>>], tim, ins, output_dir, clock, faults, 1)

----------------------------------------------------------------------------
(* merge_traces *)

\* Mutant: the new events are put in front
Extend_in_front(all_events, value) == value.items \o all_events

\* all_events.extend(events): a list gives its elements, a dict its keys
Extend(all_events, value) == all_events \o value.items

\* for trace_file in trace_files: open, json.load, extend; from the i-th on
RECURSIVE ReadTraces(_, _, _, _)
ReadTraces(fs, trace_files, i, all_events) ==
    IF i > Len(trace_files) THEN [raised |-> "none", all_events |-> all_events]
    ELSE IF ~fs[trace_files[i]].exists
    THEN [raised |-> "FileNotFoundError", all_events |-> all_events]
    ELSE LET value == json_load(fs[trace_files[i]].text)
         IN  IF value.raised # "none"
             THEN [raised |-> value.raised, all_events |-> all_events]
             ELSE ReadTraces(fs, trace_files, i + 1, Extend(all_events, value))

\* merge_traces(*trace_files, output_file=...)
merge_traces(fs, trace_files, output_file, fault) ==
    LET read == ReadTraces(fs, trace_files, 1, <<>>)
    IN  IF read.raised # "none"
        THEN [raised |-> read.raised, files |-> fs, events |-> read.all_events]
        ELSE LET w == WriteJson(fs, output_file, read.all_events, fault)
             IN  [raised |-> w.raised, files |-> w.files, events |-> read.all_events]

----------------------------------------------------------------------------
(* detect_clock_rate_mhz *)

NotFound(tried) == [found |-> FALSE, mhz |-> 0, consulted |-> tried]
Found(v, tried) == [found |-> TRUE, mhz |-> v, consulted |-> tried]

\* The try block over pynvml: import, nvmlInit and the handle, then the SM
\* clock and the graphics clock; any exception leaves the block.
NvmlStage(env) ==
    IF ~env.nvml_ok THEN NotFound(<<>>)
    ELSE IF env.nvml_sm.raises THEN NotFound(<<"nvml_sm">>)
    ELSE IF env.nvml_sm.value > 0 THEN Found(env.nvml_sm.value, <<"nvml_sm">>)
    ELSE IF env.nvml_graphics.raises THEN NotFound(<<"nvml_sm", "nvml_graphics">>)
    ELSE IF env.nvml_graphics.value > 0 THEN Found(env.nvml_graphics.value, <<"nvml_sm", "nvml_graphics">>)
    ELSE NotFound(<<"nvml_sm", "nvml_graphics">>)

NotANumber == "[N/A]"

\* float(val): the number a line of digits denotes, -1 for ValueError
ParseFloat(val) ==
    IF \E v \in 0..MaxMHz : ToString(v) = val
    THEN CHOOSE v \in 0..MaxMHz : ToString(v) = val
    ELSE -1

\* One turn of the nvidia-smi loop: check_output, splitlines, out[gpu_index],
\* float; an exception continues with the next field.
SmiField(out, gpu_index) ==
    IF out.raises \/ out.lines = <<>> \/ gpu_index + 1 > Len(out.lines) THEN 0
    ELSE IF ParseFloat(out.lines[gpu_index + 1]) > 0 THEN ParseFloat(out.lines[gpu_index + 1])
    ELSE 0

\* for field in ["clocks.current.sm", "clocks.current.graphics"]
SmiStage(env, gpu_index) ==
    IF SmiField(env.smi_sm, gpu_index) > 0
    THEN Found(SmiField(env.smi_sm, gpu_index), <<"smi_sm">>)
    ELSE IF SmiField(env.smi_graphics, gpu_index) > 0
    THEN Found(SmiField(env.smi_graphics, gpu_index), <<"smi_sm", "smi_graphics">>)
    ELSE NotFound(<<"smi_sm", "smi_graphics">>)

\* detect_clock_rate_mhz(gpu_index)
detect_clock_rate_mhz(env, gpu_index) ==
    LET n == NvmlStage(env)
        c == SmiStage(env, gpu_index)
    IN  IF n.found THEN [raised |-> "none", mhz |-> n.mhz, consulted |-> n.consulted]
        ELSE IF c.found THEN [raised |-> "none", mhz |-> c.mhz, consulted |-> n.consulted \o c.consulted]
        ELSE [raised |-> "RuntimeError", mhz |-> 0, consulted |-> n.consulted \o c.consulted]

----------------------------------------------------------------------------
(* Inputs: schedules, files, environments *)

Workers == DOMAIN WORKER_EVENTS
Slots == 0..(TEVENT_CONSUMER_START + 1)
CycleValues == (0 - 1)..MaxCycle

\* A timing row in which the workers of `ws` have the sample (s, e)
RoleRow(ws, s, e) ==
    [k \in Slots |->
        IF \E w \in ws : WORKER_EVENTS[w][1] = k THEN s
        ELSE IF \E w \in ws : WORKER_EVENTS[w][2] = k THEN e
        ELSE 0]

\* A timing tensor of shape (n, m, .): row `sp` at position pos, `bg` elsewhere
TimingTable(n, m, bg, sp, pos) ==
    [shape |-> <<n, m>>,
     data  |-> [x \in (0..(n - 1)) \X (0..(m - 1)) \X Slots |->
                   IF <<x[1], x[2]>> = pos THEN sp[x[3]] ELSE bg[x[3]]]]

\* An instruction tensor of shape (n, m, .), field 0: known and unknown opcodes
InstructionTable(n, m) ==
    [shape |-> <<n, m>>,
     data  |-> [x \in (0..(n - 1)) \X (0..(m - 1)) |-> 6 + x[1] + 2 * x[2]]]

InstructionShapes(n, m) ==
    {sh \in {<<n, m>>, <<n - 1, m>>, <<n + 1, m>>, <<n, m - 1>>, <<n, m + 1>>} : sh[1] >= 1 /\ sh[2] >= 1}

BackgroundRows == {RoleRow(Workers, 1, 2), RoleRow({"controller"}, 1, 2)}

\* The first and the last position of a tensor's two leading dimensions
Corners(n, m) == {<<0, 0>>, <<n - 1, m - 1>>}

SeedEvent(k) == MakeEvent("storer", k, 0, 3, k + 1, k + 3, Ratio(k + 1, 1), Ratio(k + 3, 1), Ratio(2, 1))

\* The texts a trace file may hold before a call: arrays, an object in the
\* {"traceEvents": ...} layout, a truncated array and an empty file.
SeedTexts ==
    {json_dump(<<>>), json_dump(<<SeedEvent(0)>>), json_dump(<<SeedEvent(0), SeedEvent(1)>>),
     <<Tok("{"), KeyTok("traceEvents"), Tok(":"), ItemTok(SeedEvent(0)), Tok("}")>>,
     Prefix(json_dump(<<SeedEvent(0), SeedEvent(1)>>), 3),
     <<>>}

OldFile == FileOf(json_dump(<<SeedEvent(2)>>))

OutputDirs == {"."}
WorkerArgs == Workers \cup {"gpu_core"}
ExportPaths == {"timeline.json"}
MergeInputs == {"timeline.json", "a.json"}
MergeOutputs == {"merged_trace.json", "a.json"}
TimelinePaths == {TimelinePath(d, w) : d \in OutputDirs, w \in Workers}
Paths == ExportPaths \cup MergeInputs \cup MergeOutputs \cup TimelinePaths

\* The faults of one export_all_workers call: at most MaxFaulty writes fail
FaultMaps == {fm \in [Workers -> Faults] : Cardinality({w \in Workers : fm[w] # NoFault}) <= MaxFaulty}

SeqsUpTo(S, n) == UNION {[1..k -> S] : k \in 0..n}

NoArgs == [worker_name |-> "", output_file |-> "", clock_rate_mhz |-> 0, output_dir |-> "", trace_files |-> <<>>]
NoCall == [op |-> "none", raised |-> "none", output_file |-> "", events |-> <<>>]

NvmlOutcomes == {[raises |-> TRUE, value |-> 0]} \cup {[raises |-> FALSE, value |-> v] : v \in 0..MaxMHz}
LineTexts == {NotANumber} \cup {ToString(v) : v \in 0..MaxMHz}
SmiOutcomes ==
    {[raises |-> TRUE, lines |-> <<>>], [raises |-> FALSE, lines |-> <<>>]}
    \cup {[raises |-> FALSE, lines |-> [i \in 1..n |-> t]] : n \in 1..MaxGpus, t \in LineTexts}

Environments ==
    [nvml_ok : BOOLEAN, nvml_sm : NvmlOutcomes, nvml_graphics : NvmlOutcomes, smi_sm : SmiOutcomes, smi_graphics : SmiOutcomes]

NoGpu ==
    [gpu_index |-> 0,
     env |-> [nvml_ok |-> FALSE, nvml_sm |-> [raises |-> TRUE, value |-> 0], nvml_graphics |-> [raises |-> TRUE, value |-> 0],
              smi_sm |-> [raises |-> TRUE, lines |-> <<>>], smi_graphics |-> [raises |-> TRUE, lines |-> <<>>]]]

----------------------------------------------------------------------------
(* Initial states *)

NoCallYet ==
    /\ filesBefore = files
    /\ op = "none"
    /\ args = NoArgs
    /\ io = NoFault
    /\ raised = "none"
    /\ events = <<>>
    /\ results = <<>>
    /\ attempted = <<>>
    /\ prev = NoCall
    /\ mhz = 0
    /\ consulted = <<>>

\* Single-worker export: every sample at one position over every background
InitExport ==
    /\ \E bg \in BackgroundRows, s \in CycleValues, e \in CycleValues, pos \in Corners(MaxSMs, MaxQueueLen) :
          timings = TimingTable(MaxSMs, MaxQueueLen, bg, RoleRow(Workers, s, e), pos)
    /\ \E sh \in InstructionShapes(MaxSMs, MaxQueueLen) : instructions = InstructionTable(sh[1], sh[2])
    /\ \E f \in {Absent, OldFile} : files = [p \in Paths |-> IF p \in ExportPaths THEN f ELSE Absent]
    /\ gpu = NoGpu
    /\ NoCallYet

\* All-worker export: schedules in which the workers differ
InitAll ==
    /\ \E bg \in BackgroundRows, ws \in {{"loader"}, {"storer", "consumer"}} :
          timings = TimingTable(MaxSMs, MaxQueueLen, bg, RoleRow(ws, 1, 2), <<0, 0>>)
    /\ \E sh \in {<<MaxSMs, MaxQueueLen>>, <<MaxSMs, MaxQueueLen - 1>>} \cap InstructionShapes(MaxSMs, MaxQueueLen) :
          instructions = InstructionTable(sh[1], sh[2])
    /\ files = [p \in Paths |-> IF p \in {TimelinePath(d, "controller") : d \in OutputDirs} THEN OldFile ELSE Absent]
    /\ gpu = NoGpu
    /\ NoCallYet

\* Merge, alone or after an export: trace files of every kind
InitMerge ==
    /\ timings = TimingTable(MaxSMs, MaxQueueLen, RoleRow(Workers, 1, 2), RoleRow({"controller"}, 1, 2), <<0, 0>>)
    /\ instructions = InstructionTable(MaxSMs, MaxQueueLen)
    /\ \E a \in {Absent} \cup {FileOf(t) : t \in SeedTexts}, f \in {Absent, OldFile} :
          files = [p \in Paths |-> IF p = "a.json" THEN a ELSE IF p \in ExportPaths THEN f ELSE Absent]
    /\ gpu = NoGpu
    /\ NoCallYet

\* Clock detection: every environment
InitClock ==
    /\ timings = TimingTable(1, 1, RoleRow({}, 0, 0), RoleRow({}, 0, 0), <<0, 0>>)
    /\ instructions = InstructionTable(1, 1)
    /\ files = [p \in Paths |-> Absent]
    /\ \E g \in 0..(MaxGpus - 1), env \in Environments : gpu = [gpu_index |-> g, env |-> env]
    /\ NoCallYet

----------------------------------------------------------------------------
(* Calls.  A behaviour is one call, or an export followed by a merge. *)

Remember == prev' = [op |-> op, raised |-> raised, output_file |-> args.output_file, events |-> events]

Export ==
    /\ op = "none"
    /\ \E worker_name \in WorkerArgs, output_file \in ExportPaths, clock \in 0..MaxClock, fault \in Faults :
          LET r == export_to_perfetto(files, timings, instructions, worker_name, output_file, clock, fault)
          IN  /\ files' = r.files
              /\ raised' = r.raised
              /\ events' = r.events
              /\ args' = [NoArgs EXCEPT !.worker_name = worker_name, !.output_file = output_file, !.clock_rate_mhz = clock]
              /\ io' = fault
    /\ op' = "export"
    /\ filesBefore' = files
    /\ Remember
    /\ UNCHANGED <<timings, instructions, results, attempted, gpu, mhz, consulted>>

ExportAll ==
    /\ op = "none"
    /\ \E output_dir \in OutputDirs, clock \in 0..MaxClock, faults \in FaultMaps :
          LET r == export_all_workers(files, timings, instructions, output_dir, clock, faults)
          IN  /\ files' = r.files
              /\ results' = r.results
              /\ attempted' = r.attempted
              /\ args' = [NoArgs EXCEPT !.output_dir = output_dir, !.clock_rate_mhz = clock]
              /\ io' = faults
    /\ op' = "export_all"
    /\ raised' = "none"
    /\ filesBefore' = files
    /\ Remember
    /\ UNCHANGED <<timings, instructions, events, gpu, mhz, consulted>>

Merge ==
    /\ op \in {"none", "export"}
    /\ \E trace_files \in SeqsUpTo(MergeInputs, MaxInputs), output_file \in MergeOutputs, fault \in Faults :
          LET r == merge_traces(files, trace_files, output_file, fault)
          IN  /\ files' = r.files
              /\ raised' = r.raised
              /\ events' = r.events
              /\ args' = [NoArgs EXCEPT !.trace_files = trace_files, !.output_file = output_file]
              /\ io' = fault
    /\ op' = "merge"
    /\ filesBefore' = files
    /\ Remember
    /\ UNCHANGED <<timings, instructions, results, attempted, gpu, mhz, consulted>>

Detect ==
    /\ op = "none"
    /\ LET r == detect_clock_rate_mhz(gpu.env, gpu.gpu_index)
       IN  /\ raised' = r.raised
           /\ mhz' = r.mhz
           /\ consulted' = r.consulted
    /\ op' = "detect"
    /\ filesBefore' = files
    /\ Remember
    /\ UNCHANGED <<timings, instructions, files, args, io, events, results, attempted, gpu>>

NextExport == Export
NextAll == ExportAll
NextMerge == Export \/ Merge
NextClock == Detect

SpecExport == InitExport /\ [][NextExport]_vars
SpecAll == InitAll /\ [][NextAll]_vars
SpecMerge == InitMerge /\ [][NextMerge]_vars
SpecClock == InitClock /\ [][NextClock]_vars

----------------------------------------------------------------------------
(* What the claims speak of *)

\* The text of a JSON array holding exactly the items evs, in order
ArrayText(evs) ==
    IF evs = <<>> THEN <<Tok("["), Tok("]")>>
    ELSE [i \in 1..(2 * Len(evs) + 1) |->
            IF i = 1 THEN Tok("[")
            ELSE IF i = 2 * Len(evs) + 1 THEN Tok("]")
            ELSE IF i % 2 = 0 THEN ItemTok(evs[i \div 2])
            ELSE Tok(",")]

\* The items of a text, in order
ItemsIn(text) ==
    LET sel == SelectSeq(text, LAMBDA t : t.tok = "item")
    IN  [i \in 1..Len(sel) |-> sel[i].val[1]]

HoldsArray(f) == f.exists /\ f.text = ArrayText(ItemsIn(f.text))

Returned == raised = "none"

\* (start_cycles, end_cycles) of worker w at (sm_id, instr_idx) in the timing table
Sample(w, sm_id, instr_idx) ==
    <<timings.data[<<sm_id, instr_idx, WORKER_EVENTS[w][1]>>], timings.data[<<sm_id, instr_idx, WORKER_EVENTS[w][2]>>]>>

Qualifies(w, sm_id, instr_idx) ==
    0 < Sample(w, sm_id, instr_idx)[1] /\ Sample(w, sm_id, instr_idx)[1] < Sample(w, sm_id, instr_idx)[2]

Pairs == (0..(timings.shape[1] - 1)) \X (0..(timings.shape[2] - 1))

\* A single-worker export was called within its preconditions
ExportInContract ==
    /\ op = "export"
    /\ args.worker_name \in Workers
    /\ args.clock_rate_mhz > 0
    /\ instructions.shape = timings.shape

EventsAt(pair) == {i \in 1..Len(events) : events[i].args.sm_id = pair[1] /\ events[i].args.instruction_index = pair[2]}

\* C1: within its preconditions, every event export_to_perfetto emits for a
\* pair (sm_id, instruction slot) comes from that pair's sample of the
\* requested worker, with start_cycles > 0, end_cycles > 0 and end_cycles >
\* start_cycles, and has dur > 0; a pair whose sample fails one of these
\* yields no event.
C1_EventsOnlyFromPositiveIncreasingSamples ==
    ExportInContract =>
        /\ \A i \in 1..Len(events) :
              LET ev == events[i]
                  smp == Sample(args.worker_name, ev.args.sm_id, ev.args.instruction_index)
              IN  /\ <<ev.args.sm_id, ev.args.instruction_index>> \in Pairs
                  /\ ev.args.start_cycles = smp[1] /\ ev.args.end_cycles = smp[2]
                  /\ smp[1] > 0 /\ smp[2] > 0 /\ smp[2] > smp[1]
                  /\ ev.dur.num > 0 /\ ev.dur.den > 0
        /\ \A pair \in Pairs :
              LET smp == Sample(args.worker_name, pair[1], pair[2])
              IN  (smp[1] <= 0 \/ smp[2] <= 0 \/ smp[2] <= smp[1]) => EventsAt(pair) = {}
        /\ Returned => ItemsIn(files[args.output_file].text) = events

\* C1 witness: an export that emitted events from a table that also holds a
\* sample with start_cycles = end_cycles > 0
C1_Witness ==
    /\ ExportInContract /\ Returned /\ Len(events) > 0
    /\ \E pair \in Pairs :
          LET smp == Sample(args.worker_name, pair[1], pair[2]) IN smp[1] > 0 /\ smp[1] = smp[2]

\* C2: an export for a worker name outside the registry fails with the
\* unknown-worker error (ValueError) and leaves every file as it was,
\* whatever the tables hold.
C2_UnknownWorkerFailsAndWritesNothing ==
    (op = "export" /\ args.worker_name \notin Workers) => (raised = "ValueError" /\ files = filesBefore)

\* C2 witness: such a call on an existing output file, with a table that
\* holds valid samples
C2_Witness ==
    /\ op = "export" /\ args.worker_name \notin Workers /\ raised = "ValueError"
    /\ filesBefore[args.output_file].exists
    /\ \E w \in Workers, pair \in Pairs : Qualifies(w, pair[1], pair[2])

C10_OneEventPerQualifyingPairInOrder ==
    ExportInContract =>
        /\ \A pair \in Pairs :
              Cardinality(EventsAt(pair)) = IF Qualifies(args.worker_name, pair[1], pair[2]) THEN 1 ELSE 0
        /\ \A i \in 1..Len(events), j \in 1..Len(events) :
              i < j => \/ events[i].args.sm_id < events[j].args.sm_id
                       \/ /\ events[i].args.sm_id = events[j].args.sm_id
                          /\ events[i].args.instruction_index < events[j].args.instruction_index
        /\ \A i \in 1..Len(events) : events[i].pid = events[i].args.sm_id /\ events[i].tid = args.worker_name
        /\ io = NoFault => (Returned /\ files[args.output_file] = FileOf(ArrayText(events)))

\* C10 witness: an export of events of more than one SM and more than one
\* slot from a table with a pair that does not qualify
C10_Witness ==
    /\ ExportInContract /\ io = NoFault /\ Returned
    /\ \E i \in 1..Len(events), j \in 1..Len(events) :
          events[i].args.sm_id # events[j].args.sm_id /\ events[i].args.instruction_index # events[j].args.instruction_index
    /\ \E pair \in Pairs : ~Qualifies(args.worker_name, pair[1], pair[2])

----------------------------------------------------------------------------
(* export_all_workers *)

\* Worker w's export, taken alone on the files before the call
AloneExport(w) ==
    export_to_perfetto(filesBefore, timings, instructions, w, args.output_dir \o "/timeline_" \o w \o ".json", args.clock_rate_mhz, io[w])

Succeeded == {w \in Workers : AloneExport(w).raised = "none"}

\* The files the same call leaves when the environment injects no fault
FilesWithoutFaults ==
    export_all_workers(filesBefore, timings, instructions, args.output_dir, args.clock_rate_mhz, [w \in Workers |-> NoFault]).files

\* C3: export_all_workers tries all registered workers in the registry's
\* order whichever of them fail, returns (never raises) a dictionary with
\* exactly the workers whose export succeeded, R - f entries, each mapped to
\* "<output_dir>/timeline_<worker>.json", and the files of the workers that
\* succeeded are those of a call in which no write fails.
C3_AllWorkersTriedFailuresIsolated ==
    op = "export_all" =>
        /\ attempted = <<"controller", "loader", "launcher", "storer", "consumer">>
        /\ Returned
        /\ DOMAIN results = Succeeded
        /\ Cardinality(DOMAIN results) = 5 - Cardinality(Workers \ Succeeded)
        /\ \A w \in DOMAIN results :
              /\ results[w] = args.output_dir \o "/timeline_" \o w \o ".json"
              /\ files[results[w]] = FilesWithoutFaults[results[w]]
              /\ files[results[w]] = AloneExport(w).files[results[w]]
        /\ \A p \in Paths : (\A w \in Workers : p # args.output_dir \o "/timeline_" \o w \o ".json") => files[p] = filesBefore[p]

\* C3 witness: the first worker and a later one fail, for different causes,
\* and workers between and after them succeed with events written
C3_Witness ==
    /\ op = "export_all"
    /\ "controller" \notin Succeeded /\ "launcher" \notin Succeeded
    /\ "loader" \in DOMAIN results /\ "consumer" \in DOMAIN results
    /\ AloneExport("controller").raised # AloneExport("launcher").raised
    /\ ItemsIn(files[results["consumer"]].text) # <<>>

----------------------------------------------------------------------------
(* merge_traces *)

RECURSIVE ItemsOfAll(_, _)
ItemsOfAll(fs, paths) ==
    IF paths = <<>> THEN <<>> ELSE ItemsIn(fs[Head(paths)].text) \o ItemsOfAll(fs, Tail(paths))

RECURSIVE SumOfLengths(_, _)
SumOfLengths(fs, paths) ==
    IF paths = <<>> THEN 0 ELSE Len(ItemsIn(fs[Head(paths)].text)) + SumOfLengths(fs, Tail(paths))

InputsAreArrays == \A i \in 1..Len(args.trace_files) : HoldsArray(filesBefore[args.trace_files[i]])

\* C4: a merge of n files that each hold a JSON array writes, unless a write
\* fails, the array of all events of the first file in their order, then
\* all of the second, and so on: exactly the sum of the k_i events (n = 0,
\* empty arrays, a path given twice and an input that is also the output
\* included).
C4_MergeConcatenatesInOrder ==
    (op = "merge" /\ InputsAreArrays) =>
        /\ events = ItemsOfAll(filesBefore, args.trace_files)
        /\ Len(events) = SumOfLengths(filesBefore, args.trace_files)
        /\ io = NoFault => Returned
        /\ Returned => files[args.output_file] = FileOf(ArrayText(ItemsOfAll(filesBefore, args.trace_files)))

\* C4 witness: two different files with different events merged
C4_Witness ==
    /\ op = "merge" /\ InputsAreArrays /\ Returned
    /\ Len(args.trace_files) = 2
    /\ args.trace_files[1] # args.trace_files[2]
    /\ ItemsIn(filesBefore[args.trace_files[1]].text) # <<>>
    /\ ItemsIn(filesBefore[args.trace_files[2]].text) # <<>>
    /\ ItemsIn(filesBefore[args.trace_files[1]].text) # ItemsIn(filesBefore[args.trace_files[2]].text)

\* C5 (as claimed): a merge with an input that exists and is not a
\* well-formed JSON array fails and leaves every file as it was.
C5_NonArrayInputFailsWithoutOutput ==
    (op = "merge" /\ \E i \in 1..Len(args.trace_files) :
         filesBefore[args.trace_files[i]].exists /\ ~HoldsArray(filesBefore[args.trace_files[i]]))
    => (raised # "none" /\ files = filesBefore)

\* C6 (as claimed): an export or a merge that fails leaves its output path
\* as it was before the call, or holding the complete new array.
C6_FailureLeavesNoPartialFile ==
    (op \in {"export", "merge"} /\ raised # "none") =>
        \/ files[args.output_file] = filesBefore[args.output_file]
        \/ files[args.output_file] = FileOf(ArrayText(events))

\* C9: after an export that wrote its N events to a file, a merge of that
\* single file into another path, with no I/O fault, returns, writes exactly
\* the same N events in the same order and leaves the source file as it was.
C9_ExportThenMergeRoundTrip ==
    (/\ op = "merge" /\ prev.op = "export" /\ prev.raised = "none"
     /\ args.trace_files = <<prev.output_file>>
     /\ args.output_file # prev.output_file
     /\ io = NoFault)
    => /\ Returned
       /\ files[args.output_file] = FileOf(ArrayText(prev.events))
       /\ ItemsIn(files[args.output_file].text) = prev.events
       /\ files[prev.output_file] = filesBefore[prev.output_file]

\* C9 witness: a round trip of several events into a path that did not exist
C9_Witness ==
    /\ op = "merge" /\ prev.op = "export" /\ prev.raised = "none"
    /\ args.trace_files = <<prev.output_file>>
    /\ args.output_file # prev.output_file
    /\ ~filesBefore[args.output_file].exists
    /\ io = NoFault /\ Returned
    /\ Len(prev.events) >= 2

----------------------------------------------------------------------------
(* detect_clock_rate_mhz *)

\* What each source yields when it is queried: its positive value, else 0
SourceOrder == <<"nvml_sm", "nvml_graphics", "smi_sm", "smi_graphics">>

LineValue(out) ==
    IF out.raises \/ gpu.gpu_index + 1 > Len(out.lines) THEN 0
    ELSE IF \E v \in 1..MaxMHz : ToString(v) = out.lines[gpu.gpu_index + 1]
    THEN CHOOSE v \in 1..MaxMHz : ToString(v) = out.lines[gpu.gpu_index + 1]
    ELSE 0

Yield(src) ==
    CASE src = "nvml_sm" -> IF gpu.env.nvml_ok /\ ~gpu.env.nvml_sm.raises THEN gpu.env.nvml_sm.value ELSE 0
      [] src = "nvml_graphics" -> IF gpu.env.nvml_ok /\ ~gpu.env.nvml_graphics.raises THEN gpu.env.nvml_graphics.value ELSE 0
      [] src = "smi_sm" -> LineValue(gpu.env.smi_sm)
      [] src = "smi_graphics" -> LineValue(gpu.env.smi_graphics)

FirstPositive == CHOOSE i \in 1..4 : Yield(SourceOrder[i]) > 0 /\ \A j \in 1..(i - 1) : Yield(SourceOrder[j]) <= 0

\* C8 (as claimed): the call returns the value of the first source, in the
\* order telemetry SM, telemetry graphics, tool SM, tool graphics, that
\* yields a positive value, consulting no later source, and fails exactly
\* when no source yields one.
C8_FirstPositiveSourceWins ==
    op = "detect" =>
        IF \E i \in 1..4 : Yield(SourceOrder[i]) > 0
        THEN /\ Returned
             /\ mhz = Yield(SourceOrder[FirstPositive])
             /\ \A k \in 1..Len(consulted) : \E j \in 1..FirstPositive : consulted[k] = SourceOrder[j]
        ELSE raised = "RuntimeError"

====
